---- MODULE Spec2Model ----
(***************************************************************************)
(* A model of the Sokoban engine of src/main.py: the level parser, the     *)
(* two-layer grid (State), the movement rules (move_player / move_box),    *)
(* the win test, and the undo history kept by Game.                        *)
(*                                                                         *)
(* Python objects live in a heap: Game.state is a list of references, and  *)
(* deepcopy allocates a fresh object, so that aliasing between snapshots   *)
(* is something the model can express.  Python lists are 0-based; the      *)
(* sequences below are 1-based and Vector2 keeps the 0-based coordinates   *)
(* of the source.                                                          *)
(***************************************************************************)
EXTENDS Integers, Sequences, FiniteSets, TLC

VARIABLES
    level_str,      \* the text handed to parse_level (main.py:243/248)
    level,          \* what parse_level returned, by value, at the time it returned
    state,          \* Game.state: the list of references to State objects
    heap,           \* reference -> State object (tiles, background, length, width)
    CAN_MULTIPUSH,  \* the module-level flag (main.py:156)
    pc,             \* "start", "play", "exit" (invalid level), "crashed" (uncaught exception);
                    \* in the event loop also "get", "for", "won", "quit"
    last,           \* the last call made on the game and how it ended
    prev,           \* the snapshots of the history, by value, before the last call
    track,          \* position in a run of k successful moves followed by undos
    writes,         \* the number of writes made through the grid handed out as current
    state_copy,     \* Game.move's local state_copy (main.py:166), by value, when move ended
    events          \* what is left of the batch pygame.event.get() returned (main.py:262)

vars == <<level_str, level, state, heap, CAN_MULTIPUSH, pc, last, prev, track, writes,
          state_copy, events>>

\* The longest history explored: a successful move is taken only below it.
MaxHist == 3

\* The most writes a holder of the current grid makes to it.
MaxWrites == 1

\* The most events one call of pygame.event.get() returns.
MaxBatch == 2

----------------------------------------------------------------------------
(* Tile vocabulary, main.py:8-63                                           *)

Tile_EMPTY == "Tile.EMPTY"
Tile_PLAYER == "Tile.PLAYER"
Tile_WALL == "Tile.WALL"
Tile_BOX == "Tile.BOX"
Tile == {Tile_EMPTY, Tile_PLAYER, Tile_WALL, Tile_BOX}

BackgroundTile_EMPTY == "BackgroundTile.EMPTY"
BackgroundTile_TARGET == "BackgroundTile.TARGET"

\* parse_tile with a default case that returns Tile.EMPTY instead of raising
parse_tile_lenient(c) ==
    IF c = "p" THEN [raised |-> FALSE, val |-> Tile_PLAYER]
    ELSE IF c = "#" THEN [raised |-> FALSE, val |-> Tile_WALL]
    ELSE IF c = "x" THEN [raised |-> FALSE, val |-> Tile_BOX]
    ELSE [raised |-> FALSE, val |-> Tile_EMPTY]

\* parse_tile: the tile of a character, or an exception
parse_tile(c) ==
    IF c = "." THEN [raised |-> FALSE, val |-> Tile_EMPTY]
    ELSE IF c = "p" THEN [raised |-> FALSE, val |-> Tile_PLAYER]
    ELSE IF c = "#" THEN [raised |-> FALSE, val |-> Tile_WALL]
    ELSE IF c = "x" THEN [raised |-> FALSE, val |-> Tile_BOX]
    ELSE [raised |-> TRUE, val |-> Tile_EMPTY]

\* parse_background_tile: the marking of a character, or an exception
parse_background_tile(c) ==
    IF c = "." THEN [raised |-> FALSE, val |-> BackgroundTile_EMPTY]
    ELSE IF c = "o" THEN [raised |-> FALSE, val |-> BackgroundTile_TARGET]
    ELSE [raised |-> TRUE, val |-> BackgroundTile_EMPTY]

----------------------------------------------------------------------------
(* Vector2 and list indexing, main.py:66-81                                *)

Vector2(x, y) == [x |-> x, y |-> y]

Vector2_add(a, b) == Vector2(a.x + b.x, a.y + b.y)

\* a Python list index i is valid on a list of n items iff -n <= i < n
IndexOk(i, n) == -n <= i /\ i < n

\* the 1-based position a valid Python index denotes
Index(i, n) == IF i < 0 THEN i + n + 1 ELSE i + 1

\* whether a[p.x][p.y] is an item (else the access raises IndexError)
CanAccess(p, a) ==
    /\ IndexOk(p.x, Len(a))
    /\ IndexOk(p.y, Len(a[Index(p.x, Len(a))]))

\* Vector2.access
access(p, a) ==
    LET row == a[Index(p.x, Len(a))]
    IN  row[Index(p.y, Len(row))]

\* Vector2.set, as the new value of the list of rows
set(p, a, val) ==
    LET i == Index(p.x, Len(a))
        j == Index(p.y, Len(a[i]))
    IN  [a EXCEPT ![i] = [@ EXCEPT ![j] = val]]

UP == Vector2(-1, 0)
DOWN == Vector2(1, 0)
LEFT == Vector2(0, -1)
RIGHT == Vector2(0, 1)
Directions == {UP, DOWN, LEFT, RIGHT}

----------------------------------------------------------------------------
(* State, main.py:88-139                                                   *)

\* State.__init__ on a non-empty list of rows (tiles[0] raises on an empty one)
State(tiles, background) ==
    [tiles |-> tiles, background |-> background,
     length |-> Len(tiles), width |-> Len(tiles[1])]

\* the placeholder standing where there is no State (None)
NoState == [tiles |-> <<>>, background |-> <<>>, length |-> 0, width |-> 0]

\* is_inbounds with the upper bounds included
is_inbounds_inclusive(self, p) ==
    /\ 0 <= p.x /\ p.x <= self.length
    /\ 0 <= p.y /\ p.y <= self.width

is_inbounds(self, p) ==
    /\ 0 <= p.x /\ p.x < self.length
    /\ 0 <= p.y /\ p.y < self.width

\* What a method that writes self.tiles in place leaves behind: whether it raised,
\* what it returned, and self.tiles as it is when the method ends.
Returned(ret, tiles) == [raised |-> FALSE, ret |-> ret, tiles |-> tiles]
Raised(tiles) == [raised |-> TRUE, ret |-> FALSE, tiles |-> tiles]

\* move_box with the write of the Box to its target left out: the pushed box vanishes
RECURSIVE move_box_drops(_, _, _, _)
move_box_drops(self, box_pos, direction, multipush) ==
    LET target == Vector2_add(box_pos, direction)
    IN  IF ~is_inbounds(self, target) THEN Returned(FALSE, self.tiles)
        ELSE IF ~CanAccess(target, self.tiles) THEN Raised(self.tiles)
        ELSE IF access(target, self.tiles) = Tile_WALL THEN Returned(FALSE, self.tiles)
        ELSE IF access(target, self.tiles) = Tile_BOX
        THEN IF ~multipush THEN Returned(FALSE, self.tiles)
             ELSE LET r == move_box_drops(self, target, direction, multipush)
                  IN  IF r.raised \/ ~r.ret THEN r
                      ELSE Returned(TRUE, set(box_pos, r.tiles, Tile_EMPTY))
        ELSE Returned(TRUE, set(box_pos, self.tiles, Tile_EMPTY))

\* move_box with the write of Tile.EMPTY to box_pos made first, before any test
RECURSIVE move_box_clears_first(_, _, _, _)
move_box_clears_first(self, box_pos, direction, multipush) ==
    LET target == Vector2_add(box_pos, direction)
        cleared == set(box_pos, self.tiles, Tile_EMPTY)
    IN  IF ~is_inbounds(self, target) THEN Returned(FALSE, cleared)
        ELSE IF ~CanAccess(target, self.tiles) THEN Raised(cleared)
        ELSE IF access(target, self.tiles) = Tile_WALL THEN Returned(FALSE, cleared)
        ELSE IF access(target, self.tiles) = Tile_BOX
        THEN IF ~multipush THEN Returned(FALSE, cleared)
             ELSE LET r == move_box_clears_first([self EXCEPT !.tiles = cleared],
                                                 target, direction, multipush)
                  IN  IF r.raised \/ ~r.ret THEN r
                      ELSE Returned(TRUE, set(target, r.tiles, Tile_BOX))
        ELSE Returned(TRUE, set(target, cleared, Tile_BOX))

\* State.move_box, main.py:113-124
RECURSIVE move_box(_, _, _, _)
move_box(self, box_pos, direction, multipush) ==
    LET target == Vector2_add(box_pos, direction)
    IN  IF ~is_inbounds(self, target) THEN Returned(FALSE, self.tiles)
        ELSE IF ~CanAccess(target, self.tiles) THEN Raised(self.tiles)
        ELSE IF access(target, self.tiles) = Tile_WALL THEN Returned(FALSE, self.tiles)
        ELSE IF access(target, self.tiles) = Tile_BOX
        THEN IF ~multipush THEN Returned(FALSE, self.tiles)
             ELSE LET r == move_box(self, target, direction, multipush)
                  IN  IF r.raised \/ ~r.ret THEN r
                      ELSE Returned(TRUE,
                               set(target, set(box_pos, r.tiles, Tile_EMPTY), Tile_BOX))
        ELSE Returned(TRUE, set(target, set(box_pos, self.tiles, Tile_EMPTY), Tile_BOX))

\* move_player without the write of Tile.EMPTY to the cell the player leaves
move_player_keeps(self, player_pos, direction, multipush) ==
    LET target == Vector2_add(player_pos, direction)
    IN  IF ~is_inbounds(self, target) THEN Returned(FALSE, self.tiles)
        ELSE IF ~CanAccess(target, self.tiles) THEN Raised(self.tiles)
        ELSE IF access(target, self.tiles) = Tile_WALL THEN Returned(FALSE, self.tiles)
        ELSE IF access(target, self.tiles) = Tile_BOX
        THEN LET r == move_box(self, target, direction, multipush)
             IN  IF r.raised \/ ~r.ret THEN r
                 ELSE Returned(TRUE, set(target, r.tiles, Tile_PLAYER))
        ELSE Returned(TRUE, set(target, self.tiles, Tile_PLAYER))

\* move_player without the test for a Wall at the target
move_player_through_walls(self, player_pos, direction, multipush) ==
    LET target == Vector2_add(player_pos, direction)
    IN  IF ~is_inbounds(self, target) THEN Returned(FALSE, self.tiles)
        ELSE IF ~CanAccess(target, self.tiles) THEN Raised(self.tiles)
        ELSE IF access(target, self.tiles) = Tile_BOX
        THEN LET r == move_box(self, target, direction, multipush)
             IN  IF r.raised \/ ~r.ret THEN r
                 ELSE Returned(TRUE,
                          set(target, set(player_pos, r.tiles, Tile_EMPTY), Tile_PLAYER))
        ELSE Returned(TRUE,
                 set(target, set(player_pos, self.tiles, Tile_EMPTY), Tile_PLAYER))

\* State.move_player, main.py:100-111
move_player(self, player_pos, direction, multipush) ==
    LET target == Vector2_add(player_pos, direction)
    IN  IF ~is_inbounds(self, target) THEN Returned(FALSE, self.tiles)
        ELSE IF ~CanAccess(target, self.tiles) THEN Raised(self.tiles)
        ELSE IF access(target, self.tiles) = Tile_WALL THEN Returned(FALSE, self.tiles)
        ELSE IF access(target, self.tiles) = Tile_BOX
        THEN LET r == move_box(self, target, direction, multipush)
             IN  IF r.raised \/ ~r.ret THEN r
                 ELSE Returned(TRUE,
                          set(target, set(player_pos, r.tiles, Tile_EMPTY), Tile_PLAYER))
        ELSE Returned(TRUE,
                 set(target, set(player_pos, self.tiles, Tile_EMPTY), Tile_PLAYER))

\* State.positions: the k-th position (k from 0) of the row-major scan
positions(self, k) == Vector2(k \div self.width, k % self.width)

\* the number of positions State.positions yields
NPositions(self) == self.length * self.width

\* State.win, main.py:126-131: the scan from its k-th cell on; the result is
\* [raised, ret], an IndexError being raised by a cell one of the layers lacks
RECURSIVE win_from(_, _)
win_from(self, k) ==
    IF k >= NPositions(self) THEN [raised |-> FALSE, ret |-> TRUE]
    ELSE LET p == positions(self, k)
         IN  IF ~CanAccess(p, self.tiles) THEN [raised |-> TRUE, ret |-> FALSE]
             ELSE IF access(p, self.tiles) = Tile_BOX
             THEN IF ~CanAccess(p, self.background) THEN [raised |-> TRUE, ret |-> FALSE]
                  ELSE IF access(p, self.background) # BackgroundTile_TARGET
                  THEN [raised |-> FALSE, ret |-> FALSE]
                  ELSE win_from(self, k + 1)
             ELSE win_from(self, k + 1)

\* win as "every Target holds a Box" instead of "every Box is on a Target"
win_targets_covered(self) ==
    [raised |-> FALSE,
     ret |-> \A i \in 1..Len(self.background) : \A j \in 1..Len(self.background[i]) :
                 self.background[i][j] = BackgroundTile_TARGET =>
                     /\ i <= Len(self.tiles) /\ j <= Len(self.tiles[i])
                     /\ self.tiles[i][j] = Tile_BOX]

win(self) == win_from(self, 0)

----------------------------------------------------------------------------
(* parse_level, main.py:223-232.  A text is a sequence of characters.      *)

\* str.splitlines over "\n": the lines after position i, cur being the line begun
RECURSIVE splitlines_from(_, _, _)
splitlines_from(s, i, cur) ==
    IF i > Len(s) THEN (IF cur = <<>> THEN <<>> ELSE <<cur>>)
    ELSE IF s[i] = "\n" THEN <<cur>> \o splitlines_from(s, i + 1, <<>>)
    ELSE splitlines_from(s, i + 1, Append(cur, s[i]))

splitlines(s) == splitlines_from(s, 1, <<>>)

\* str.split(): the words between runs of blanks
RECURSIVE split_from(_, _, _)
split_from(s, i, cur) ==
    IF i > Len(s) THEN (IF cur = <<>> THEN <<>> ELSE <<cur>>)
    ELSE IF s[i] = " "
    THEN (IF cur = <<>> THEN <<>> ELSE <<cur>>) \o split_from(s, i + 1, <<>>)
    ELSE split_from(s, i + 1, Append(cur, s[i]))

split(s) == split_from(s, 1, <<>>)

Digits == <<"0", "1", "2", "3", "4", "5", "6", "7", "8", "9">>
IsDigit(c) == \E d \in 1..Len(Digits) : Digits[d] = c
DigitValue(c) == (CHOOSE d \in 1..Len(Digits) : Digits[d] = c) - 1

\* the value of a non-empty run of decimal digits
RECURSIVE DecimalValue(_)
DecimalValue(ds) ==
    IF ds = <<>> THEN 0
    ELSE 10 * DecimalValue(SubSeq(ds, 1, Len(ds) - 1)) + DigitValue(ds[Len(ds)])

\* int(w) of a word: an optional sign and decimal digits, else ValueError
int(w) ==
    LET signed == w # <<>> /\ w[1] \in {"+", "-"}
        ds == IF signed THEN Tail(w) ELSE w
    IN  IF ds = <<>> \/ \E i \in 1..Len(ds) : ~IsDigit(ds[i])
        THEN [raised |-> TRUE, val |-> 0]
        ELSE [raised |-> FALSE,
              val |-> IF signed /\ w[1] = "-" THEN 0 - DecimalValue(ds)
                      ELSE DecimalValue(ds)]

\* the Python slice a[lo:hi] of a list
Slice(a, lo, hi) ==
    LET n == Len(a)
        clamp(i) == IF i < 0 THEN (IF i + n < 0 THEN 0 ELSE i + n)
                    ELSE (IF i > n THEN n ELSE i)
    IN  SubSeq(a, clamp(lo) + 1, clamp(hi))

\* list(map(parse_tile, ln)) for a line ln: the row of tiles, or the first exception
ParseTileRow(ln) ==
    IF \E i \in 1..Len(ln) : parse_tile(ln[i]).raised
    THEN [raised |-> TRUE, val |-> <<>>]
    ELSE [raised |-> FALSE, val |-> [i \in 1..Len(ln) |-> parse_tile(ln[i]).val]]

\* list(map(parse_background_tile, ln)) for a line ln
ParseBackgroundRow(ln) ==
    IF \E i \in 1..Len(ln) : parse_background_tile(ln[i]).raised
    THEN [raised |-> TRUE, val |-> <<>>]
    ELSE [raised |-> FALSE,
          val |-> [i \in 1..Len(ln) |-> parse_background_tile(ln[i]).val]]

\* the result of parse_level: a State, or None (ok = FALSE) after any exception
Parsed(st) == [ok |-> TRUE, state |-> st]
None == [ok |-> FALSE, state |-> NoState]

parse_level(s) ==
    LET lines == splitlines(s)
    IN  IF lines = <<>> THEN None                          \* lines[0]: IndexError
        ELSE LET words == split(lines[1])
             IN  IF Len(words) # 2 \/ \E i \in 1..Len(words) : int(words[i]).raised
                 THEN None                                 \* ValueError
                 ELSE LET length == int(words[1]).val
                          tls == Slice(lines, 1, length + 1)
                          bgs == Slice(lines, length + 1, (length * 2) + 1)
                          tiles == [i \in 1..Len(tls) |-> ParseTileRow(tls[i])]
                          background ==
                              [i \in 1..Len(bgs) |-> ParseBackgroundRow(bgs[i])]
                      IN  IF \/ \E i \in 1..Len(tiles) : tiles[i].raised
                             \/ \E i \in 1..Len(background) : background[i].raised
                          THEN None                        \* invalid character
                          ELSE IF tiles = <<>> THEN None   \* tiles[0]: IndexError
                          ELSE Parsed(State(
                                   [i \in 1..Len(tiles) |-> tiles[i].val],
                                   [i \in 1..Len(background) |-> background[i].val]))

----------------------------------------------------------------------------
(* Game, main.py:159-178, over a heap of State objects                     *)

\* the references a list holds
Refs(hist) == {hist[i] : i \in 1..Len(hist)}

\* the least reference no object of the heap has
FreshRef(hp) ==
    CHOOSE r \in 1..(Cardinality(DOMAIN hp) + 1) :
        /\ r \notin DOMAIN hp
        /\ \A q \in 1..(r - 1) : q \in DOMAIN hp

\* the heap once the objects no entry of the list refers to are collected
Collect(hist, hp) == [r \in Refs(hist) |-> hp[r]]

\* the history by value: the State each entry refers to
Snapshots(hist, hp) == [i \in 1..Len(hist) |-> hp[hist[i]]]

\* Game.__init__: the list holds the one reference to the initial State
Game(initial_state) == [state |-> <<1>>, heap |-> (1 :> initial_state)]

\* no copy at all (state_copy = self.state[-1]): the same object under a second name
deepcopy_alias(hist, hp) == [ref |-> hist[Len(hist)], heap |-> hp]

\* deepcopy(self.state[-1]), main.py:166: a new object, equal by value
deepcopy(hist, hp) ==
    LET r == FreshRef(hp)
    IN  [ref |-> r, heap |-> (r :> hp[hist[Len(hist)]]) @@ hp]

\* the loop of Game.move, main.py:167-171, from the k-th position on: the first
\* Player tile whose move_player succeeds ends it; one that fails lets it go on
RECURSIVE move_scan(_, _, _, _)
move_scan(self, k, direction, multipush) ==
    IF k >= NPositions(self) THEN Returned(FALSE, self.tiles)
    ELSE LET p == positions(self, k)
         IN  IF ~CanAccess(p, self.tiles) THEN Raised(self.tiles)
             ELSE IF access(p, self.tiles) = Tile_PLAYER
             THEN LET r == move_player(self, p, direction, multipush)
                  IN  IF r.raised \/ r.ret THEN r
                      ELSE move_scan([self EXCEPT !.tiles = r.tiles], k + 1,
                                     direction, multipush)
             ELSE move_scan(self, k + 1, direction, multipush)

\* Game.move with the append outside the test of move_player's result
Game_move_appends(hist, hp, direction, multipush) ==
    LET c == deepcopy(hist, hp)
        r == move_scan(c.heap[c.ref], 0, direction, multipush)
        written == [c.heap EXCEPT ![c.ref].tiles = r.tiles]
    IN  IF r.raised
        THEN [raised |-> TRUE, ret |-> FALSE, copy |-> written[c.ref],
              state |-> hist, heap |-> Collect(hist, written)]
        ELSE [raised |-> FALSE, ret |-> r.ret, copy |-> written[c.ref],
              state |-> Append(hist, c.ref), heap |-> written]

\* Game.move, main.py:165-172: the new list and heap, how the call ended, and the
\* local state_copy as the call leaves it
Game_move(hist, hp, direction, multipush) ==
    LET c == deepcopy(hist, hp)
        r == move_scan(c.heap[c.ref], 0, direction, multipush)
        written == [c.heap EXCEPT ![c.ref].tiles = r.tiles]
    IN  IF ~r.raised /\ r.ret
        THEN [raised |-> FALSE, ret |-> TRUE, copy |-> written[c.ref],
              state |-> Append(hist, c.ref), heap |-> written]
        ELSE [raised |-> r.raised, ret |-> FALSE, copy |-> written[c.ref],
              state |-> hist, heap |-> Collect(hist, written)]

\* Game.undo popping the first entry (pop(0)) instead of the last
Game_undo_first(hist, hp) ==
    IF Len(hist) > 1
    THEN LET popped == Tail(hist)
         IN  [ret |-> TRUE, state |-> popped, heap |-> Collect(popped, hp)]
    ELSE [ret |-> FALSE, state |-> hist, heap |-> hp]

\* Game.undo with the test len(self.state) >= 1
Game_undo_any(hist, hp) ==
    IF Len(hist) >= 1
    THEN LET popped == SubSeq(hist, 1, Len(hist) - 1)
         IN  [ret |-> TRUE, state |-> popped, heap |-> Collect(popped, hp)]
    ELSE [ret |-> FALSE, state |-> hist, heap |-> hp]

\* Game.undo, main.py:174-178
Game_undo(hist, hp) ==
    IF Len(hist) > 1
    THEN LET popped == SubSeq(hist, 1, Len(hist) - 1)
         IN  [ret |-> TRUE, state |-> popped, heap |-> Collect(popped, hp)]
    ELSE [ret |-> FALSE, state |-> hist, heap |-> hp]

----------------------------------------------------------------------------
(* The level texts explored.  A text is a header line, tile rows and       *)
(* background rows, each ended by a newline as in the files of levels/.    *)

RECURSIVE Join(_)
Join(lines) == IF lines = <<>> THEN <<>> ELSE Head(lines) \o <<"\n">> \o Join(Tail(lines))

\* header lines: well-formed, one value, a non-integer, a negative and a zero length
Headers ==
    {<<"1", " ", "3">>,
     <<"2", " ", "3">>,
     <<"3", " ", "3">>,
     <<"3">>,
     <<"a", " ", "3">>,
     <<"-", "2", " ", "3">>,
     <<"0", " ", "3">>}

\* tile rows: the spec's two scenarios, adjacent boxes, two-row grids, rows that are
\* shorter or longer than the first, two players, none, and a character no tile has
TileParts ==
    {<<<<"p", "x", ".">>>>,
     <<<<"#", "#", "#">>, <<"#", "p", ".">>, <<"#", "#", "#">>>>,
     <<<<"p", "x", "x">>>>,
     <<<<"p", "x", "x">>, <<".">>>>,
     <<<<"p", ".", "x">>, <<".", ".", ".">>>>,
     <<<<"p", "x", ".">>, <<".">>>>,
     <<<<"p", ".">>, <<".", ".", "x">>>>,
     <<<<"p", "x", "p">>>>,
     <<<<".", "x", ".">>>>,
     <<<<"p", "x">>>>,
     <<<<"p", "q", ".">>>>,
     <<<<"p", ".", "#">>, <<"x", ".", ".">>>>}

\* background rows: matching the tile rows above, missing, and an unknown character
BackgroundParts ==
    {<<<<".", ".", "o">>>>,
     <<<<".", "o", ".">>, <<".", ".", ".">>, <<".", ".", ".">>>>,
     <<<<".", ".", "o">>, <<".">>>>,
     <<>>,
     <<<<".", ".", ".">>, <<"o", ".", ".">>>>,
     <<<<".", ".", "z">>>>,
     <<<<".", ".">>, <<".", ".", ".">>>>}

LevelText(header, tile_rows, background_rows) ==
    Join(<<header>> \o tile_rows \o background_rows)

LevelTexts ==
    {<<>>} \cup {LevelText(h, t, b) : h \in Headers, t \in TileParts, b \in BackgroundParts}

\* the spec's 3x3 scenario and its 1x3 corridor
Level3x3 == LevelText(<<"3", " ", "3">>, <<<<"#", "#", "#">>, <<"#", "p", ".">>, <<"#", "#", "#">>>>,
                      <<<<".", "o", ".">>, <<".", ".", ".">>, <<".", ".", ".">>>>)
Level1x3 == LevelText(<<"1", " ", "3">>, <<<<"p", "x", ".">>>>, <<<<".", ".", "o">>>>)

\* the corridor with a second player beyond the box
Level1x3TwoPlayers ==
    LevelText(<<"1", " ", "3">>, <<<<"p", "x", "p">>>>, <<<<".", ".", "o">>>>)

----------------------------------------------------------------------------
(* The state machine: the level is parsed and wrapped in a Game            *)
(* (main.py:250-254), which then takes move and undo calls in any order.   *)

NoCall == [op |-> "none", direction |-> Vector2(0, 0), ret |-> FALSE, raised |-> FALSE]
NoTrack == [mode |-> "off", k |-> 0, u |-> 0]

Init ==
    /\ level_str \in LevelTexts
    /\ level = None
    /\ state = <<>>
    /\ heap = <<>>
    /\ CAN_MULTIPUSH = FALSE
    /\ pc = "start"
    /\ last = NoCall
    /\ prev = <<>>
    /\ track = NoTrack
    /\ writes = 0
    /\ state_copy = NoState
    /\ events = <<>>

\* main.py:250-254: parse_level, exit(1) on None, else Game(level)
ParseLevel ==
    /\ pc = "start"
    /\ LET r == parse_level(level_str)
           g == Game(r.state)
       IN  /\ level' = r
           /\ pc' = IF r.ok THEN "play" ELSE "exit"
           /\ state' = IF r.ok THEN g.state ELSE state
           /\ heap' = IF r.ok THEN g.heap ELSE heap
           /\ track' = IF r.ok THEN [mode |-> "moves", k |-> 0, u |-> 0] ELSE track
    /\ UNCHANGED <<level_str, CAN_MULTIPUSH, last, prev, writes, state_copy, events>>

\* game.move(direction); an exception it raises is caught nowhere and ends the program
Move(direction) ==
    /\ pc = "play"
    /\ LET r == Game_move(state, heap, direction, CAN_MULTIPUSH)
       IN  /\ r.ret => Len(state) < MaxHist
           /\ state' = r.state
           /\ heap' = r.heap
           /\ last' = [op |-> "move", direction |-> direction,
                       ret |-> r.ret, raised |-> r.raised]
           /\ state_copy' = r.copy
           /\ pc' = IF r.raised THEN "crashed" ELSE "play"
           /\ track' = IF track.mode = "moves"
                       THEN [track EXCEPT !.k = IF r.ret THEN @ + 1 ELSE @]
                       ELSE NoTrack
    /\ prev' = Snapshots(state, heap)
    /\ UNCHANGED <<level_str, level, CAN_MULTIPUSH, writes, events>>

\* game.undo()
Undo ==
    /\ pc = "play"
    /\ LET r == Game_undo(state, heap)
       IN  /\ state' = r.state
           /\ heap' = r.heap
           /\ last' = [op |-> "undo", direction |-> Vector2(0, 0),
                       ret |-> r.ret, raised |-> FALSE]
    /\ track' = IF track.mode \in {"moves", "undos"} /\ track.u <= track.k
                THEN [track EXCEPT !.mode = "undos", !.u = @ + 1]
                ELSE NoTrack
    /\ prev' = Snapshots(state, heap)
    /\ state_copy' = NoState
    /\ UNCHANGED <<level_str, level, CAN_MULTIPUSH, pc, writes, events>>

Next ==
    \/ ParseLevel
    \/ \E direction \in Directions : Move(direction)
    \/ Undo

Spec == Init /\ [][Next]_vars

\* The cells a list of rows holds, as 0-based positions
Cells(a) == UNION {{Vector2(i - 1, j - 1) : j \in 1..Len(a[i])} : i \in 1..Len(a)}

\* The holder of game.state[-1] (main.py:257, 275 hand it to the renderer) writes
\* one of its tiles with Vector2.set, main.py:77-78
SetCurrent ==
    /\ pc = "play"
    /\ writes < MaxWrites
    /\ \E p \in Cells(heap[state[Len(state)]].tiles), val \in Tile :
           heap' = [heap EXCEPT ![state[Len(state)]].tiles = set(p, @, val)]
    /\ last' = [op |-> "set", direction |-> Vector2(0, 0), ret |-> FALSE, raised |-> FALSE]
    /\ prev' = Snapshots(state, heap)
    /\ writes' = writes + 1
    /\ state_copy' = NoState
    /\ UNCHANGED <<level_str, level, state, CAN_MULTIPUSH, pc, track, events>>

\* the corridor levels: few enough cells for every write to be tried
InitClient ==
    /\ Init
    /\ level_str \in {Level1x3, Level1x3TwoPlayers}

NextClient ==
    \/ ParseLevel
    \/ \E direction \in Directions : Move(direction)
    \/ Undo
    \/ SetCurrent

\* the game driven by move and undo calls and by writes to the current grid
SpecClient == InitClient /\ [][NextClient]_vars

----------------------------------------------------------------------------
(* The game with either value of the flag CAN_MULTIPUSH (main.py:156)      *)

\* corridors with one box and with two adjacent boxes before the edge, a wall and
\* an empty cell, a two-row grid, and a grid whose second row is short
Level1x3Chain == LevelText(<<"1", " ", "3">>, <<<<"p", "x", "x">>>>, <<<<".", ".", "o">>>>)
Level1x4Chain ==
    LevelText(<<"1", " ", "4">>, <<<<"p", "x", "x", ".">>>>, <<<<".", ".", ".", "o">>>>)
Level1x4Walled ==
    LevelText(<<"1", " ", "4">>, <<<<"p", "x", "x", "#">>>>, <<<<".", ".", "o", ".">>>>)
Level2x3 ==
    LevelText(<<"2", " ", "3">>, <<<<"p", ".", "#">>, <<"x", ".", ".">>>>,
              <<<<".", ".", ".">>, <<"o", ".", ".">>>>)
Level2x3Ragged ==
    LevelText(<<"2", " ", "3">>, <<<<"p", "x", "x">>, <<".">>>>, <<<<".", ".", "o">>, <<".">>>>)

MultiLevels ==
    {Level1x3, Level1x3TwoPlayers, Level1x3Chain, Level1x4Chain, Level1x4Walled,
     Level2x3, Level2x3Ragged}

InitMulti ==
    /\ level_str \in MultiLevels
    /\ CAN_MULTIPUSH \in BOOLEAN
    /\ level = None
    /\ state = <<>>
    /\ heap = <<>>
    /\ pc = "start"
    /\ last = NoCall
    /\ prev = <<>>
    /\ track = NoTrack
    /\ writes = 0
    /\ state_copy = NoState
    /\ events = <<>>

\* move and undo calls in any order, chain pushing disabled or enabled
SpecMulti == InitMulti /\ [][Next]_vars

----------------------------------------------------------------------------
(* The event loop of __main__, main.py:261-279                             *)

\* the events told apart by the loop: the five keys it acts on, another key
\* released, the window's QUIT, and an event of another type
ArrowKeys == {"K_UP", "K_DOWN", "K_LEFT", "K_RIGHT"}
Events ==
    {[type |-> "KEYUP", key |-> k] : k \in ArrowKeys \cup {"K_BACKSPACE", "K_SPACE"}}
        \cup {[type |-> "QUIT", key |-> "none"], [type |-> "KEYDOWN", key |-> "K_UP"]}

\* what one call of pygame.event.get() may return
Batches == UNION {[1..n -> Events] : n \in 0..MaxBatch}

\* main.py:264-271: the direction of an arrow key
KeyDirection(key) ==
    IF key = "K_UP" THEN UP
    ELSE IF key = "K_DOWN" THEN DOWN
    ELSE IF key = "K_LEFT" THEN LEFT
    ELSE RIGHT

\* where the loop stands after the event at the head of the batch
AfterEvent == IF Tail(events) = <<>> THEN "play" ELSE "for"

\* main.py:261: the test of the while loop, game.state[-1].win()
WhileTest ==
    /\ pc = "play"
    /\ LET w == win(heap[state[Len(state)]])
       IN  pc' = IF w.raised THEN "crashed" ELSE IF w.ret THEN "won" ELSE "get"
    /\ UNCHANGED <<level_str, level, state, heap, CAN_MULTIPUSH, last, prev, track,
                   writes, state_copy, events>>

\* main.py:262: pygame.event.get() hands over the events queued since the last call
EventGet ==
    /\ pc = "get"
    /\ \E batch \in Batches :
           /\ events' = batch
           /\ pc' = IF batch = <<>> THEN "play" ELSE "for"
    /\ UNCHANGED <<level_str, level, state, heap, CAN_MULTIPUSH, last, prev, track,
                   writes, state_copy>>

\* main.py:263-271, 275: an arrow key released calls game.move
KeyArrow ==
    /\ pc = "for"
    /\ events # <<>>
    /\ Head(events).type = "KEYUP"
    /\ Head(events).key \in ArrowKeys
    /\ LET direction == KeyDirection(Head(events).key)
           r == Game_move(state, heap, direction, CAN_MULTIPUSH)
       IN  /\ r.ret => Len(state) < MaxHist
           /\ state' = r.state
           /\ heap' = r.heap
           /\ last' = [op |-> "move", direction |-> direction,
                       ret |-> r.ret, raised |-> r.raised]
           /\ state_copy' = r.copy
           /\ pc' = IF r.raised THEN "crashed" ELSE AfterEvent
    /\ prev' = Snapshots(state, heap)
    /\ events' = Tail(events)
    /\ UNCHANGED <<level_str, level, CAN_MULTIPUSH, track, writes>>

\* main.py:272-273, 275: backspace released calls game.undo
KeyBackspace ==
    /\ pc = "for"
    /\ events # <<>>
    /\ Head(events).type = "KEYUP"
    /\ Head(events).key = "K_BACKSPACE"
    /\ LET r == Game_undo(state, heap)
       IN  /\ state' = r.state
           /\ heap' = r.heap
           /\ last' = [op |-> "undo", direction |-> Vector2(0, 0),
                       ret |-> r.ret, raised |-> FALSE]
    /\ prev' = Snapshots(state, heap)
    /\ state_copy' = NoState
    /\ pc' = AfterEvent
    /\ events' = Tail(events)
    /\ UNCHANGED <<level_str, level, CAN_MULTIPUSH, track, writes>>

\* main.py:263, 275, 277: another key released, or an event of another type
EventIgnored ==
    /\ pc = "for"
    /\ events # <<>>
    /\ \/ Head(events).type = "KEYUP" /\ Head(events).key \notin ArrowKeys \cup {"K_BACKSPACE"}
       \/ Head(events).type \notin {"KEYUP", "QUIT"}
    /\ pc' = AfterEvent
    /\ events' = Tail(events)
    /\ UNCHANGED <<level_str, level, state, heap, CAN_MULTIPUSH, last, prev, track,
                   writes, state_copy>>

\* main.py:277-279: QUIT closes the renderer and ends the program
EventQuit ==
    /\ pc = "for"
    /\ events # <<>>
    /\ Head(events).type = "QUIT"
    /\ pc' = "quit"
    /\ UNCHANGED <<level_str, level, state, heap, CAN_MULTIPUSH, last, prev, track,
                   writes, state_copy, events>>

\* the spec's two scenarios, two players, and a grid whose second row is short
MainLevels == {Level1x3, Level3x3, Level1x3TwoPlayers, Level2x3, Level2x3Ragged}

InitMain ==
    /\ Init
    /\ level_str \in MainLevels

NextMain ==
    \/ ParseLevel
    \/ WhileTest
    \/ EventGet
    \/ KeyArrow
    \/ KeyBackspace
    \/ EventIgnored
    \/ EventQuit

\* the program: the level parsed, then the event loop until it is won or quit
SpecMain == InitMain /\ [][NextMain]_vars

----------------------------------------------------------------------------
(* Vocabulary of the properties                                            *)

\* game.state[-1], the current grid, and the grid that was current before the last call
Current == heap[state[Len(state)]]
Before == prev[Len(prev)]

\* the snapshots of the history, by value, now
History == Snapshots(state, heap)

\* the cells of the grid: the items of the tile layer inside length x width
GridCells(self) == {p \in Cells(self.tiles) : is_inbounds(self, p)}
BoxCells(self) == {p \in GridCells(self) : access(p, self.tiles) = Tile_BOX}
PlayerCells(self) == {p \in GridCells(self) : access(p, self.tiles) = Tile_PLAYER}

\* the number of Box tiles the tile layer holds
BoxCount(self) ==
    Cardinality({p \in Cells(self.tiles) : access(p, self.tiles) = Tile_BOX})

\* whether the background layer marks p as a Target
IsTarget(self, p) ==
    CanAccess(p, self.background) /\ access(p, self.background) = BackgroundTile_TARGET

\* the cells the grid has at p: inside it and holding the given tile
Holds(self, p, tile) ==
    is_inbounds(self, p) /\ CanAccess(p, self.tiles) /\ access(p, self.tiles) = tile

MoveCalled == last.op = "move" /\ prev # <<>>
MoveFailed == MoveCalled /\ ~last.raised /\ ~last.ret
MoveSucceeded == MoveCalled /\ ~last.raised /\ last.ret
Constructed == pc \in {"play", "crashed"}

----------------------------------------------------------------------------
(* The properties                                                          *)

\* C1: whenever Game.move(d) returns False the history is unchanged: it has the
\* same length and every grid of it, the current one included, is equal by value
\* to what it was before the call.
C1_FailedMoveKeepsHistory == MoveFailed => History = prev

\* a move that returned False because the box in front of the player is blocked
C1_Witness ==
    /\ MoveFailed
    /\ \E p \in PlayerCells(Current) :
           Holds(Current, Vector2_add(p, last.direction), Tile_BOX)

\* C2: after any sequence of move and undo calls on a parsed level the current
\* grid holds as many Box tiles as the initial grid.
C2_BoxCountInvariant == Constructed => BoxCount(Current) = BoxCount(level.state)

\* a move that succeeded and changed where the boxes are
C2_Witness ==
    /\ MoveSucceeded
    /\ BoxCount(Current) > 0
    /\ BoxCells(Current) # BoxCells(Before)

\* C3: if the cell next to the player at p, in direction d, is outside the grid or a
\* Wall, move(d) returns False and the player stays at p.
C3_BlockedMoveFails ==
    MoveCalled =>
        \A p \in PlayerCells(Before) :
            LET target == Vector2_add(p, last.direction)
            IN  (/\ PlayerCells(Before) = {p}
                 /\ ~is_inbounds(Before, target) \/ Holds(Before, target, Tile_WALL))
                    => /\ ~last.raised
                       /\ ~last.ret
                       /\ p \in PlayerCells(Current)

\* C4: after k successful moves from the initial state, the first k calls of undo
\* return True and the k-th leaves the current grid equal to the initial parsed
\* grid; the (k+1)-th returns False and changes nothing.
C4_UndoRestoresInitial ==
    track.mode = "undos" =>
        /\ track.u <= track.k => last.ret
        /\ track.u = track.k => Current = level.state /\ Len(state) = 1
        /\ track.u = track.k + 1 => ~last.ret /\ History = prev

\* two successful moves, two undos, and a third undo that has just failed
C4_Witness ==
    /\ track.mode = "undos"
    /\ track.k = 2
    /\ track.u = 3
    /\ last.op = "undo"

\* C5: the history always holds at least one snapshot and its first entry is the
\* initial parsed grid; undo removes exactly the last entry and returns True when
\* there are more than one, and returns False and changes nothing when there is one.
C5_HistoryNeverEmpty ==
    Constructed =>
        /\ Len(state) >= 1
        /\ heap[state[1]] = level.state
        /\ last.op = "undo" =>
               IF Len(prev) > 1
               THEN last.ret /\ History = SubSeq(prev, 1, Len(prev) - 1)
               ELSE ~last.ret /\ History = prev

\* an undo refused on the one-entry history that undos of earlier moves left
C5_Witness ==
    /\ last.op = "undo"
    /\ ~last.ret
    /\ Len(state) = 1
    /\ track.mode = "undos"
    /\ track.k >= 1

\* C6: a successful move appends one snapshot and leaves the older ones as they
\* were; no move, undo or write to the current grid changes another entry of the
\* history, and no two entries are the same object.
C6_SnapshotsIndependent ==
    /\ (last.op = "move" /\ last.ret) =>
           Len(History) = Len(prev) + 1 /\ SubSeq(History, 1, Len(prev)) = prev
    /\ last.op \in {"move", "undo"} =>
           \A i \in 1..Len(History) : i <= Len(prev) => History[i] = prev[i]
    /\ last.op = "set" =>
           /\ Len(History) = Len(prev)
           /\ \A i \in 1..(Len(History) - 1) : History[i] = prev[i]
    /\ \A i, j \in 1..Len(state) : i # j => state[i] # state[j]

\* a write that changed the current grid after an undo, older entries being held
C6_Witness ==
    /\ last.op = "set"
    /\ track.mode = "undos"
    /\ Len(state) >= 2
    /\ Current # Before

\* whether win() returned True on the grid
Won(self) == ~win(self).raised /\ win(self).ret

\* C7: win() is True iff every cell whose tile is Box is marked Target.
C7_WinIffBoxesOnTargets ==
    Constructed =>
        (Won(Current) <=> \A p \in BoxCells(Current) : IsTarget(Current, p))

\* the boxes of a grid that are on no Target
OffTarget(self) == {p \in BoxCells(self) : ~IsTarget(self, p)}

\* C8: when exactly one box is off the targets and a successful move pushes it
\* onto a Target cell, win() is True on the new current grid.
C8_PushOntoTargetWins ==
    MoveSucceeded =>
        \A b \in BoxCells(Before) :
            LET t == Vector2_add(b, last.direction)
            IN  (/\ OffTarget(Before) = {b}
                 /\ b \notin BoxCells(Current)
                 /\ Holds(Current, t, Tile_BOX)
                 /\ IsTarget(Current, t))
                    => Won(Current)

\* C9: with CAN_MULTIPUSH = False a successful move changes the position of at
\* most one box, and a move whose pushed box has a Box right behind it returns False.
C9_SinglePush ==
    (~CAN_MULTIPUSH /\ MoveCalled) =>
        /\ last.ret =>
               Cardinality(BoxCells(Before) \ BoxCells(Current)) <= 1
        /\ \A p \in PlayerCells(Before) :
               LET b == Vector2_add(p, last.direction)
                   n == Vector2_add(b, last.direction)
               IN  (Holds(Before, b, Tile_BOX) /\ Holds(Before, n, Tile_BOX))
                       => ~last.raised /\ ~last.ret

\* the header's two values, of a text whose header parse_level accepted
DeclaredLength == int(split(splitlines(level_str)[1])[1]).val
DeclaredWidth == int(split(splitlines(level_str)[1])[2]).val

\* whether a layer has the declared number of rows, each of the declared width
AsDeclared(layer) ==
    /\ Len(layer) = DeclaredLength
    /\ \A i \in 1..Len(layer) : Len(layer[i]) = DeclaredWidth

\* C10: every grid parse_level returns has 2*length+1 lines behind it and a tile
\* layer and a background layer of exactly length rows by width columns.
C10_ParsedAsDeclared ==
    level.ok =>
        /\ Len(splitlines(level_str)) >= 2 * DeclaredLength + 1
        /\ AsDeclared(level.state.tiles)
        /\ AsDeclared(level.state.background)

\* C11: every move call on a grid parse_level accepted ends by returning True or
\* False; no blocked move surfaces as a raised error.
C11_MoveNeverRaises == last.op = "move" => ~last.raised

\* the lines of the text, and the rows parse_level reads under a well-formed header
Lines == splitlines(level_str)
ReadTileRows == Slice(Lines, 1, DeclaredLength + 1)
ReadBackgroundRows == Slice(Lines, DeclaredLength + 1, (DeclaredLength * 2) + 1)

\* a header that is missing, has not exactly two words, or a word that is no integer
HeaderMalformed ==
    \/ Lines = <<>>
    \/ Len(split(Lines[1])) # 2
    \/ \E i \in 1..Len(split(Lines[1])) : int(split(Lines[1])[i]).raised

\* a character no tile has in a tile row read, or no marking has in a background row read
UnknownTileCharacter ==
    \E i \in 1..Len(ReadTileRows) : \E j \in 1..Len(ReadTileRows[i]) :
        ReadTileRows[i][j] \notin {".", "p", "#", "x"}
UnknownBackgroundCharacter ==
    \E i \in 1..Len(ReadBackgroundRows) : \E j \in 1..Len(ReadBackgroundRows[i]) :
        ReadBackgroundRows[i][j] \notin {".", "o"}

\* C12: on a malformed header, or a character outside {., p, #, x} in a tile row read
\* or outside {., o} in a background row read, parse_level returns None (the
\* program exits with "Invalid level") and no grid, partial or whole, is returned.
C12_MalformedTextIsNone ==
    pc # "start" =>
        ((HeaderMalformed \/ UnknownTileCharacter \/ UnknownBackgroundCharacter)
            => ~level.ok /\ level.state = NoState /\ pc = "exit" /\ state = <<>>)

\* a text with a well-formed header and an unknown tile character, refused
C12_Witness ==
    /\ pc = "exit"
    /\ ~HeaderMalformed
    /\ UnknownTileCharacter

\* the number of Player tiles the tile layer holds
PlayerCount(self) ==
    Cardinality({p \in Cells(self.tiles) : access(p, self.tiles) = Tile_PLAYER})

\* C13: when the current grid holds no Player tile or more than one, move(d)
\* returns False and the history is unchanged.
C13_NotOnePlayerFails ==
    (MoveCalled /\ PlayerCount(Before) # 1) =>
        ~last.raised /\ ~last.ret /\ History = prev

\* the cell a successful move's player left, the cell it entered, the cell behind
Mover(p) ==
    /\ p \in PlayerCells(Before)
    /\ CanAccess(Vector2_add(p, last.direction), Before.tiles)
    /\ CanAccess(p, Current.tiles)
    /\ access(p, Current.tiles) = Tile_EMPTY
    /\ access(Vector2_add(p, last.direction), Current.tiles) = Tile_PLAYER
Pushed(p) == access(Vector2_add(p, last.direction), Before.tiles) = Tile_BOX
Entered(p) == Vector2_add(p, last.direction)
Behind(p) == Vector2_add(Entered(p), last.direction)

\* C17: after a successful move(d) with the player at P, the new snapshot holds
\* Player at P+d and Empty at P; if P+d held a Box, Box at P+2d; every other tile
\* cell, the background, length and width are as in the previous snapshot.
C17_MoveFrame ==
    MoveSucceeded =>
        \E p \in PlayerCells(Before) :
            /\ Mover(p)
            /\ Cells(Current.tiles) = Cells(Before.tiles)
            /\ \A c \in Cells(Before.tiles) :
                   access(c, Current.tiles) =
                       IF c = p THEN Tile_EMPTY
                       ELSE IF c = Entered(p) THEN Tile_PLAYER
                       ELSE IF Pushed(p) /\ c = Behind(p) THEN Tile_BOX
                       ELSE access(c, Before.tiles)
            /\ Current.background = Before.background
            /\ Current.length = Before.length
            /\ Current.width = Before.width

\* a successful move that pushed a box, on a grid that also holds a wall
C17_Witness ==
    /\ MoveSucceeded
    /\ \E p \in PlayerCells(Before) : Mover(p) /\ Pushed(p)
    /\ \E c \in Cells(Before.tiles) : access(c, Before.tiles) = Tile_WALL

\* C19: when the current grid holds no Player tile, move(d) returns False and the
\* history is unchanged.
C19_NoPlayerFails ==
    (MoveCalled /\ PlayerCount(Before) = 0) =>
        ~last.raised /\ ~last.ret /\ History = prev

\* C20: when the initial grid holds exactly one Player tile, every snapshot of the
\* history holds exactly one Player tile, on a cell that is not a Wall in the
\* initial grid.
C20_OnePlayerOffWalls ==
    (Constructed /\ PlayerCount(level.state) = 1) =>
        \A i \in 1..Len(History) :
            /\ PlayerCount(History[i]) = 1
            /\ \A p \in Cells(History[i].tiles) :
                   access(p, History[i].tiles) = Tile_PLAYER =>
                       /\ CanAccess(p, level.state.tiles)
                       /\ access(p, level.state.tiles) # Tile_WALL

\* one player among walls, after a successful move and with a full history
C20_Witness ==
    /\ Constructed
    /\ PlayerCount(level.state) = 1
    /\ \E c \in Cells(level.state.tiles) : access(c, level.state.tiles) = Tile_WALL
    /\ MoveSucceeded
    /\ Len(History) = MaxHist

\* the tile layer of the 3x3 level at the start and with the player one cell right
Tiles3x3 ==
    <<<<Tile_WALL, Tile_WALL, Tile_WALL>>,
      <<Tile_WALL, Tile_PLAYER, Tile_EMPTY>>,
      <<Tile_WALL, Tile_WALL, Tile_WALL>>>>
Tiles3x3Right ==
    <<<<Tile_WALL, Tile_WALL, Tile_WALL>>,
      <<Tile_WALL, Tile_EMPTY, Tile_PLAYER>>,
      <<Tile_WALL, Tile_WALL, Tile_WALL>>>>

\* a move(d) called when the history is the initial grid alone, and one called when
\* it is the initial grid followed by one grid with the given tiles
FirstMove(d) == MoveCalled /\ last.direction = d /\ prev = <<level.state>>
MoveAfter(tiles, d) ==
    /\ MoveCalled /\ last.direction = d
    /\ Len(prev) = 2 /\ prev[1] = level.state /\ prev[2].tiles = tiles

\* C15 as stated: on the 3x3 level move(Right) succeeds with the player moving onto
\* the empty cell, the immediately following move(Left) fails, and win() is True
\* from the initial state on.
C15_RightThenLeftFails ==
    level_str = Level3x3 =>
        /\ Constructed => level.state.tiles = Tiles3x3
        /\ FirstMove(RIGHT) => MoveSucceeded /\ Current.tiles = Tiles3x3Right
        /\ MoveAfter(Tiles3x3Right, LEFT) => MoveFailed /\ History = prev
        /\ Constructed => \A i \in 1..Len(History) : Won(History[i])

\* C15 amended: on the 3x3 level move(Right) succeeds with the player moving onto
\* the empty cell, the immediately following move(Left) succeeds and moves the
\* player back onto the cell it started on (which the first move left Empty), and
\* win() is True from the initial state on.
C15_RightThenLeftReturns ==
    level_str = Level3x3 =>
        /\ Constructed => level.state.tiles = Tiles3x3
        /\ FirstMove(RIGHT) => MoveSucceeded /\ Current.tiles = Tiles3x3Right
        /\ MoveAfter(Tiles3x3Right, LEFT) =>
               MoveSucceeded /\ Current.tiles = Tiles3x3 /\ Len(History) = 3
        /\ Constructed => \A i \in 1..Len(History) : Won(History[i])

\* the 3x3 level after move(Right), move(Left)
C15_Witness ==
    /\ level_str = Level3x3
    /\ MoveAfter(Tiles3x3Right, LEFT)
    /\ Won(Current)

\* the tile layer of the corridor at the start and with the box pushed onto the target
Tiles1x3 == <<<<Tile_PLAYER, Tile_BOX, Tile_EMPTY>>>>
Tiles1x3Right == <<<<Tile_EMPTY, Tile_PLAYER, Tile_BOX>>>>

\* C16: on the 1x3 level px. / ..o the first move(Right) succeeds, moves the box
\* from column 1 to column 2 onto the target and the player to column 1, and win()
\* is then True; a second move(Right) returns False and the grid is unchanged.
C16_CorridorPush ==
    level_str = Level1x3 =>
        /\ Constructed =>
               /\ level.state.tiles = Tiles1x3
               /\ IsTarget(level.state, Vector2(0, 2))
        /\ FirstMove(RIGHT) =>
               MoveSucceeded /\ Current.tiles = Tiles1x3Right /\ Won(Current)
        /\ MoveAfter(Tiles1x3Right, RIGHT) =>
               MoveFailed /\ History = prev /\ Current.tiles = Tiles1x3Right

\* the corridor after move(Right), move(Right)
C16_Witness ==
    /\ level_str = Level1x3
    /\ MoveAfter(Tiles1x3Right, RIGHT)
    /\ ~last.ret

\* C14: in the event loop, no move or undo is applied to a game whose current
\* grid is won: the loop stops before the next command.
C14_NoCommandAfterWin ==
    (last.op \in {"move", "undo"} /\ prev # <<>>) => ~Won(Before)

\* C18: when move returns False, the grid move_player and move_box were called on
\* (the copy) is as it was before the call, with chain pushing disabled or
\* enabled; a blocked chain of boxes stays in place.
C18_FailedMoveWritesNothing == MoveFailed => state_copy = Before

\* chain pushing enabled, two adjacent boxes pushed against a wall or the edge
C18_Witness ==
    /\ CAN_MULTIPUSH
    /\ MoveFailed
    /\ \E p \in PlayerCells(Before) :
           /\ Holds(Before, Vector2_add(p, last.direction), Tile_BOX)
           /\ Holds(Before, Vector2_add(Vector2_add(p, last.direction), last.direction),
                    Tile_BOX)

====
